---- MODULE Spec2Model ----
(***************************************************************************)
(* Model of tools/shadow_builder.py: build_shadow_dom, the ShadowNode      *)
(* geometry methods it calls, and the collection and grouping of the       *)
(* rectangles at the start of export_html.                                 *)
(*                                                                         *)
(* A Python dict with optional keys is a record whose fields are sets:     *)
(* {} when the key is missing, {v} when it is present with value v.        *)
(* dict.get(key, default) is Get(field, default).                          *)
(* Node objects live in the sequence `nodes`; a reference to a node is its *)
(* index, the root is index 1.  Identifier strings are sequences of tokens *)
(* so that str.replace can be computed.                                    *)
(***************************************************************************)
EXTENDS Integers, Sequences, FiniteSets, TLC

\* Longest probe list processed by one build.
MaxProbes == 4

\* ------------------------------------------------------------------------
\* Constants of the program
\* ------------------------------------------------------------------------
A4_HEIGHT_PT == 842
DEFAULT_RECT_WIDTH == 400
MIN_HEIGHT == 15
BOTTOM_MARGIN == 50
TOP_MARGIN == 50
MIN_FRAGMENT_HEIGHT == 50
ATOMIC_SIZE == 10
DEFAULT_PAGE == 1
DEFAULT_COORD == 0

\* ------------------------------------------------------------------------
\* Helpers
\* ------------------------------------------------------------------------
\* dict.get(key, default) on an optional field
Get(opt, default) == IF opt = {} THEN default ELSE CHOOSE v \in opt : TRUE

\* Python's max(a, b)
Max(a, b) == IF a >= b THEN a ELSE b

\* Rect(page, x, y, w, h)
Rect(page, x, y, w, h) == [page |-> page, x |-> x, y |-> y, w |-> w, h |-> h]

\* ------------------------------------------------------------------------
\* Inputs: the probe records one build can be fed
\* ------------------------------------------------------------------------
Loc(page, x, y) == [page |-> page, x |-> x, y |-> y]

Payload(kind, edge) == [kind |-> kind, edge |-> edge, pages |-> {}]

Probe(id, kind, edge, payload, location) ==
    [id |-> id, kind |-> kind, edge |-> edge, payload |-> payload,
     location |-> location, seq |-> {}]

\* Probes whose payload carries edge = "start"
StartProbes ==
    { Probe({<<"p1", "-start">>}, {}, {}, Payload({"para"}, {"start"}), Loc({1}, {0}, {100})),
      Probe({<<"a", "-start", "b", "-start">>}, {}, {"end"}, Payload({}, {"start"}), Loc({1}, {30}, {800})),
      Probe({<<"p1", "-start">>}, {"heading"}, {}, Payload({}, {"start"}), Loc({}, {}, {})),
      Probe({<<"p2", "-start">>}, {"heading"}, {}, Payload({"para"}, {"start"}), Loc({2}, {30}, {140})) }

\* Probes whose payload carries edge = "end"
EndProbes ==
    { Probe({<<"p1", "-end">>}, {}, {}, Payload({"para"}, {"end"}), Loc({1}, {0}, {140})),
      Probe({<<"p2", "-end">>}, {}, {}, Payload({}, {"end"}), Loc({2}, {30}, {100})),
      Probe({<<"p2", "-end">>}, {}, {}, Payload({}, {"end"}), Loc({3}, {0}, {100})),
      Probe({}, {}, {}, Payload({}, {"end"}), Loc({}, {}, {})) }

\* Probes whose payload carries no edge
OtherProbes ==
    { Probe({<<"m">>}, {"heading"}, {}, Payload({}, {}), Loc({1}, {30}, {100})),
      Probe({}, {}, {}, Payload({}, {}), Loc({}, {}, {})),
      Probe({<<"p1", "-start">>}, {}, {"start"}, Payload({}, {}), Loc({1}, {0}, {100})),
      Probe({<<"p1", "-end">>}, {}, {"end"}, Payload({}, {}), Loc({1}, {0}, {140})) }

Probes == StartProbes \cup EndProbes \cup OtherProbes

\* The record at position i of a list sorted by _seq (positions from 0)
WithSeq(p, i) == [p EXCEPT !.seq = {i}]

\* ------------------------------------------------------------------------
\* ShadowNode
\* ------------------------------------------------------------------------
ShadowNode(kind, id, seq_start, payload, is_atomic) ==
    [kind |-> kind, id |-> id, seq_start |-> seq_start,
     children |-> <<>>, rects |-> <<>>, payload |-> payload,
     is_atomic |-> is_atomic,
     start_page |-> 1, start_x |-> 0, start_y |-> 0]

\* Variant of AddChild: the child is inserted at the front
AddChildFront(node, child) == [node EXCEPT !.children = <<child>> \o @]

\* ShadowNode.add_child
AddChild(node, child) == [node EXCEPT !.children = Append(@, child)]

\* Variant of SetStart: a missing page defaults to 0
SetStartPageZero(node, location) ==
    [node EXCEPT !.start_page = Get(location.page, 0),
                 !.start_x = Get(location.x, DEFAULT_COORD),
                 !.start_y = Get(location.y, DEFAULT_COORD)]

\* ShadowNode.set_start
SetStart(node, location) ==
    [node EXCEPT !.start_page = Get(location.page, DEFAULT_PAGE),
                 !.start_x = Get(location.x, DEFAULT_COORD),
                 !.start_y = Get(location.y, DEFAULT_COORD)]

\* Variant of SamePageRect: the minimum height is not applied
SamePageRectNoFloor(node, end_y) ==
    Rect(node.start_page, node.start_x, node.start_y,
         DEFAULT_RECT_WIDTH, end_y - node.start_y)

\* ShadowNode.close, scenario A: the rectangle of a same-page close
SamePageRect(node, end_y) ==
    Rect(node.start_page, node.start_x, node.start_y,
         DEFAULT_RECT_WIDTH, Max(end_y - node.start_y, MIN_HEIGHT))

\* ShadowNode.close, scenario B, rect 1: from start_y to the page bottom
StartFragment(node) ==
    Rect(node.start_page, node.start_x, node.start_y,
         DEFAULT_RECT_WIDTH,
         Max(A4_HEIGHT_PT - node.start_y - BOTTOM_MARGIN, MIN_FRAGMENT_HEIGHT))

\* Variant of EndFragment: the rectangle starts at end_y, not at the top margin
EndFragmentAtEndY(end_page, end_x, end_y) ==
    Rect(end_page, end_x, end_y,
         DEFAULT_RECT_WIDTH, Max(end_y - TOP_MARGIN, MIN_FRAGMENT_HEIGHT))

\* ShadowNode.close, scenario B, rect 2: from the page top to end_y
EndFragment(end_page, end_x, end_y) ==
    Rect(end_page, end_x, TOP_MARGIN,
         DEFAULT_RECT_WIDTH, Max(end_y - TOP_MARGIN, MIN_FRAGMENT_HEIGHT))

\* Variant of Close: the cross-page branch makes the start fragment only
CloseStartFragmentOnly(node, end_location) ==
    LET end_page == Get(end_location.page, DEFAULT_PAGE)
        end_y == Get(end_location.y, DEFAULT_COORD)
    IN  IF node.start_page = end_page
        THEN [node EXCEPT !.rects = Append(@, SamePageRect(node, end_y))]
        ELSE [node EXCEPT !.rects = Append(@, StartFragment(node))]

\* ShadowNode.close
Close(node, end_location) ==
    LET end_page == Get(end_location.page, DEFAULT_PAGE)
        end_x == Get(end_location.x, DEFAULT_COORD)
        end_y == Get(end_location.y, DEFAULT_COORD)
    IN  IF node.start_page = end_page
        THEN [node EXCEPT !.rects = Append(@, SamePageRect(node, end_y))]
        ELSE [node EXCEPT !.rects = Append(Append(@, StartFragment(node)),
                                           EndFragment(end_page, end_x, end_y))]

\* Variant of AddAtomicRect: w and h are left to the Rect defaults (400 x 20)
AddAtomicRectDefaultSize(node, location) ==
    [node EXCEPT !.rects = Append(@,
        Rect(Get(location.page, DEFAULT_PAGE), Get(location.x, DEFAULT_COORD),
             Get(location.y, DEFAULT_COORD), DEFAULT_RECT_WIDTH, 20))]

\* ShadowNode.add_atomic_rect
AddAtomicRect(node, location) ==
    [node EXCEPT !.rects = Append(@,
        Rect(Get(location.page, DEFAULT_PAGE), Get(location.x, DEFAULT_COORD),
             Get(location.y, DEFAULT_COORD), ATOMIC_SIZE, ATOMIC_SIZE))]

\* ------------------------------------------------------------------------
\* build_shadow_dom: per-probe computations
\* ------------------------------------------------------------------------
\* probe.get("id", "unknown")
ProbeId(probe) == Get(probe.id, <<"unknown">>)

\* payload.get("kind", probe.get("kind", "marker"))
Kind(probe) == Get(probe.payload.kind, Get(probe.kind, "marker"))

\* payload.get("edge")
Edge(probe) == Get(probe.payload.edge, "None")

\* probe.get("_seq", 0)
Seq0(probe) == Get(probe.seq, 0)

\* probe_id.replace("-start", "")
StripStart(probe_id) == SelectSeq(probe_id, LAMBDA t : t # "-start")

\* Variant of AddPage: a missing page is recorded as the default page
AddPageOrDefault(seen, location) == seen \cup {Get(location.page, DEFAULT_PAGE)}

\* if "page" in location: pages_seen.add(location["page"])
AddPage(seen, location) == seen \cup location.page

\* Variant of Top: the bottom of the stack (stack[0])
TopIsBottom(s) == s[1]

\* stack[-1]
Top(s) == s[Len(s)]

\* Variant of CanPop: off by one (len(stack) >= 1)
CanPopOffByOne(s) == Len(s) >= 1

\* Variant of CanPop: the guard is dropped
CanPopAlways(s) == TRUE

\* len(stack) > 1
CanPop(s) == Len(s) > 1

\* Variant of Pop: the top is read but not removed (stack[-1] for stack.pop())
PopKeepsTop(s) == s

\* Variant of Pop: the bottom is removed (stack.pop(0))
PopFront(s) == Tail(s)

\* stack.pop(): the remaining stack
Pop(s) == SubSeq(s, 1, Len(s) - 1)

\* stack.append(node)
Push(s, n) == Append(s, n)

\* ------------------------------------------------------------------------
\* State
\* ------------------------------------------------------------------------
VARIABLES
    probes,       \* the part of the probe list the loop has consumed
    pc,           \* "loop" while iterating, "done" after the return
    nodes,        \* the ShadowNode objects, root at index 1
    stack,        \* the build stack (node references)
    pages_seen,   \* set of page numbers seen
    close_calls,  \* the calls of ShadowNode.close made so far
    all_rects,    \* export_html: the list filled by collect_all_rects
    rects_by_page \* export_html: the page -> triples dict

vars == <<probes, pc, nodes, stack, pages_seen, close_calls, all_rects, rects_by_page>>

Root == 1

\* Variant of OwnTriples: one rectangle per node, the first
OwnTriplesFirstOnly(n) ==
    [k \in 1..(IF nodes[n].rects = <<>> THEN 0 ELSE 1) |->
        <<nodes[n].kind, nodes[n].id, nodes[n].rects[k]>>]

\* collect_all_rects: the (kind, id, rect) triples of the node's own rects
OwnTriples(n) ==
    [k \in 1..Len(nodes[n].rects) |-> <<nodes[n].kind, nodes[n].id, nodes[n].rects[k]>>]

RECURSIVE CollectAllRects(_, _), CollectChildren(_, _, _)
\* collect_all_rects(node, results): the results list after the call
CollectAllRects(n, results) ==
    CollectChildren(nodes[n].children, 1, results \o OwnTriples(n))

\* collect_all_rects: the loop over node.children, from child k on
CollectChildren(children, k, results) ==
    IF k > Len(children) THEN results
    ELSE CollectChildren(children, k + 1, CollectAllRects(children[k], results))

RECURSIVE GroupByPage(_, _, _)
\* export_html: the grouping loop over all_rects from position k on, with
\* the dict built so far
GroupByPage(all, k, by_page) ==
    IF k > Len(all) THEN by_page
    ELSE LET page == all[k][3].page
             with_key == IF page \in DOMAIN by_page THEN by_page
                         ELSE [g \in DOMAIN by_page \cup {page} |->
                                  IF g = page THEN <<>> ELSE by_page[g]]
         IN  GroupByPage(all, k + 1, [with_key EXCEPT ![page] = Append(@, all[k])])

Init ==
    /\ probes = <<>>
    /\ pc = "loop"
    /\ nodes = << ShadowNode("DOCUMENT", <<"ROOT">>, 0, Payload({}, {}), FALSE) >>
    /\ stack = << Root >>
    /\ pages_seen = {}
    /\ close_calls = <<>>
    /\ all_rects = <<>>
    /\ rects_by_page = <<>>

\* One loop iteration taking the `edge == "start"` branch
ProcessStart(p) ==
    LET probe == WithSeq(p, Len(probes))
        current_parent == Top(stack)
        new == Len(nodes) + 1
        node == SetStart(ShadowNode(Kind(probe), StripStart(ProbeId(probe)),
                                    Seq0(probe), probe.payload, FALSE),
                         probe.location)
    IN  /\ pc = "loop"
        /\ Len(probes) < MaxProbes
        /\ Edge(probe) = "start"
        /\ probes' = Append(probes, probe)
        /\ pages_seen' = AddPage(pages_seen, probe.location)
        /\ nodes' = Append([nodes EXCEPT ![current_parent] = AddChild(@, new)], node)
        /\ stack' = Push(stack, new)
        /\ UNCHANGED <<pc, close_calls, all_rects, rects_by_page>>

\* Variant of ProcessEnd: the end probe closes the open node whose id is the
\* probe's identifier without "-end", and is ignored when there is none
ProcessEndById(p) ==
    LET probe == WithSeq(p, Len(probes))
        target == SelectSeq(ProbeId(probe), LAMBDA t : t # "-end")
        matches == { i \in 2..Len(stack) : nodes[stack[i]].id = target }
        at == CHOOSE i \in matches : \A k \in matches : k <= i
    IN  /\ pc = "loop"
        /\ Len(probes) < MaxProbes
        /\ Edge(probe) # "start"
        /\ Edge(probe) = "end"
        /\ probes' = Append(probes, probe)
        /\ pages_seen' = AddPage(pages_seen, probe.location)
        /\ IF matches # {}
           THEN /\ stack' = SubSeq(stack, 1, at - 1) \o SubSeq(stack, at + 1, Len(stack))
                /\ nodes' = [nodes EXCEPT ![stack[at]] = Close(@, probe.location)]
                /\ close_calls' = Append(close_calls,
                                     [node |-> stack[at], end_location |-> probe.location])
           ELSE UNCHANGED <<stack, nodes, close_calls>>
        /\ UNCHANGED <<pc, all_rects, rects_by_page>>

\* One loop iteration taking the `edge == "end"` branch
ProcessEnd(p) ==
    LET probe == WithSeq(p, Len(probes))
        closed_node == Top(stack)
    IN  /\ pc = "loop"
        /\ Len(probes) < MaxProbes
        /\ Edge(probe) # "start"
        /\ Edge(probe) = "end"
        /\ probes' = Append(probes, probe)
        /\ pages_seen' = AddPage(pages_seen, probe.location)
        /\ IF CanPop(stack)
           THEN /\ stack' = Pop(stack)
                /\ nodes' = [nodes EXCEPT ![closed_node] = Close(@, probe.location)]
                /\ close_calls' = Append(close_calls,
                                     [node |-> closed_node, end_location |-> probe.location])
           ELSE UNCHANGED <<stack, nodes, close_calls>>
        /\ UNCHANGED <<pc, all_rects, rects_by_page>>

\* One loop iteration taking the `else` (atomic) branch
ProcessAtomic(p) ==
    LET probe == WithSeq(p, Len(probes))
        current_parent == Top(stack)
        new == Len(nodes) + 1
        node == AddAtomicRect(ShadowNode(Kind(probe), ProbeId(probe),
                                         Seq0(probe), probe.payload, TRUE),
                              probe.location)
    IN  /\ pc = "loop"
        /\ Len(probes) < MaxProbes
        /\ Edge(probe) # "start"
        /\ Edge(probe) # "end"
        /\ probes' = Append(probes, probe)
        /\ pages_seen' = AddPage(pages_seen, probe.location)
        /\ nodes' = Append([nodes EXCEPT ![current_parent] = AddChild(@, new)], node)
        /\ UNCHANGED <<pc, stack, close_calls, all_rects, rects_by_page>>

\* End of the loop: root.payload["pages"] = len(pages_seen); return root
Finish ==
    /\ pc = "loop"
    /\ pc' = "done"
    /\ nodes' = [nodes EXCEPT ![Root].payload.pages = {Cardinality(pages_seen)}]
    /\ UNCHANGED <<probes, stack, pages_seen, close_calls, all_rects, rects_by_page>>

\* export_html up to the grouping: collect_all_rects(root, all_rects), then
\* the rects_by_page loop
ExportHtml ==
    /\ pc = "done"
    /\ pc' = "exported"
    /\ all_rects' = CollectAllRects(Root, <<>>)
    /\ rects_by_page' = GroupByPage(all_rects', 1, <<>>)
    /\ UNCHANGED <<probes, nodes, stack, pages_seen, close_calls>>

Next ==
    \/ \E p \in Probes : ProcessStart(p)
    \/ \E p \in Probes : ProcessEnd(p)
    \/ \E p \in Probes : ProcessAtomic(p)
    \/ Finish
    \/ ExportHtml

Spec == Init /\ [][Next]_vars

\* ------------------------------------------------------------------------
\* Vocabulary of the properties
\* ------------------------------------------------------------------------
\* The pairing marker the builder reads from the probe at position i (1-based)
MarkerAt(i) == IF probes[i].payload.edge = {} THEN "None"
               ELSE CHOOSE e \in probes[i].payload.edge : TRUE

\* Number of probes with marker e among the first k probes
Count(e, k) == Cardinality({ i \in 1..k : MarkerAt(i) = e })

\* Every prefix has at least as many starts as ends, and the totals are equal
WellNested ==
    /\ \A k \in 1..Len(probes) : Count("start", k) >= Count("end", k)
    /\ Count("start", Len(probes)) = Count("end", Len(probes))

NonRoot == 2..Len(nodes)

OnStack(n) == \E i \in 1..Len(stack) : stack[i] = n

IsPaired(n) == n \in NonRoot /\ ~nodes[n].is_atomic

\* The calls of close made on node n
CallsOn(n) == { j \in 1..Len(close_calls) : close_calls[j].node = n }

\* The parents of n, with the position of n in their children list
ParentSlots(n) ==
    { qk \in (1..Len(nodes)) \X (1..Len(nodes)) :
        /\ qk[2] <= Len(nodes[qk[1]].children)
        /\ nodes[qk[1]].children[qk[2]] = n }

\* ------------------------------------------------------------------------
\* C1
\* ------------------------------------------------------------------------
\* C1: after a well-nested sequence of start/end probes (atomic probes may be
\* interleaved) there have been as many closes as start probes, every paired
\* node has been closed exactly once, and the stack holds only the root.
C1_WellNestedBalanced ==
    WellNested =>
        /\ Len(close_calls) = Count("start", Len(probes))
        /\ \A n \in NonRoot : IsPaired(n) => Cardinality(CallsOn(n)) = 1
        /\ stack = <<1>>

\* A well-nested sequence with two nested starts has been processed
C1_Witness ==
    /\ WellNested
    /\ pc = "done"
    /\ Count("start", Len(probes)) = 2
    /\ \E n \in NonRoot : IsPaired(n) /\ nodes[n].children # <<>>

\* ------------------------------------------------------------------------
\* C2
\* ------------------------------------------------------------------------
\* C2: whatever the probes, the stack is never empty, its bottom is the root,
\* the root occurs nowhere else on it, the root is never closed and has no
\* rectangles.
C2_RootStays ==
    /\ Len(stack) >= 1
    /\ stack[1] = 1
    /\ \A i \in 2..Len(stack) : stack[i] # 1
    /\ CallsOn(1) = {}
    /\ nodes[1].rects = <<>>

\* More end probes than start probes have been processed
C2_Witness ==
    /\ Count("end", Len(probes)) > Count("start", Len(probes))
    /\ Count("start", Len(probes)) >= 1
    /\ MarkerAt(Len(probes)) = "end"

\* ------------------------------------------------------------------------
\* C3
\* ------------------------------------------------------------------------
\* The page of the location passed to the one close call on node n
EndPageOf(n) ==
    LET j == CHOOSE j \in CallsOn(n) : TRUE
        pg == close_calls[j].end_location.page
    IN  IF pg = {} THEN 1 ELSE CHOOSE v \in pg : TRUE

\* The page of the location of the probe that opened node n
OpenPageOf(n) ==
    LET pg == probes[nodes[n].seq_start + 1].location.page
    IN  IF pg = {} THEN 1 ELSE CHOOSE v \in pg : TRUE

\* C3: a paired node has no rectangle while it is on the stack; once closed
\* it has one rectangle if its open page equals the end page and two if not.
C3_RectCount ==
    \A n \in NonRoot : IsPaired(n) =>
        IF OnStack(n)
        THEN nodes[n].rects = <<>> /\ CallsOn(n) = {}
        ELSE /\ Cardinality(CallsOn(n)) = 1
             /\ Len(nodes[n].rects) = IF OpenPageOf(n) = EndPageOf(n) THEN 1 ELSE 2

\* A paired node is still open while another has been closed on another page
C3_Witness ==
    /\ \E n \in NonRoot : IsPaired(n) /\ OnStack(n) /\ nodes[n].rects = <<>>
    /\ \E n \in NonRoot : /\ IsPaired(n) /\ ~OnStack(n)
                          /\ OpenPageOf(n) # EndPageOf(n)
                          /\ Len(nodes[n].rects) = 2

\* ------------------------------------------------------------------------
\* C4
\* ------------------------------------------------------------------------
\* The value of an optional location field, or d when it is missing
OrDefault(opt, d) == IF opt = {} THEN d ELSE CHOOSE v \in opt : TRUE

\* The location of the probe that opened the node closed by call j
OpenLoc(j) ==
    LET l == probes[nodes[close_calls[j].node].seq_start + 1].location
    IN  [page |-> OrDefault(l.page, 1), x |-> OrDefault(l.x, 0), y |-> OrDefault(l.y, 0)]

\* The location of the end probe of call j
EndLoc(j) ==
    LET l == close_calls[j].end_location
    IN  [page |-> OrDefault(l.page, 1), x |-> OrDefault(l.x, 0), y |-> OrDefault(l.y, 0)]

RectsOfCall(j) == nodes[close_calls[j].node].rects

\* C4: a node opened at (p0,x0,y0) and closed at (p1,x1,y1) with p0 = p1 has
\* the single rectangle (p0, x0, y0, 400, max(y1 - y0, 15)); page 1 y=100 to
\* page 1 y=140 gives height 40.
C4_SamePageRect ==
    \A j \in 1..Len(close_calls) :
        LET o == OpenLoc(j)
            e == EndLoc(j)
        IN  o.page = e.page =>
              /\ RectsOfCall(j) =
                   << [page |-> o.page, x |-> o.x, y |-> o.y, w |-> 400,
                       h |-> IF e.y - o.y >= 15 THEN e.y - o.y ELSE 15] >>
              /\ RectsOfCall(j)[1].h >= 15
              /\ (o.page = 1 /\ o.y = 100 /\ e.y = 140) =>
                     (RectsOfCall(j)[1].page = 1 /\ RectsOfCall(j)[1].h = 40)

\* The build has closed page 1 y=100 at page 1 y=140, and another node at a
\* y above its opening y
C4_Witness ==
    /\ \E j \in 1..Len(close_calls) :
          /\ OpenLoc(j).page = 1 /\ EndLoc(j).page = 1
          /\ OpenLoc(j).y = 100 /\ EndLoc(j).y = 140
    /\ \E j \in 1..Len(close_calls) :
          /\ OpenLoc(j).page = EndLoc(j).page
          /\ EndLoc(j).y < OpenLoc(j).y

\* ------------------------------------------------------------------------
\* C5
\* ------------------------------------------------------------------------
\* C5: a node opened at (p0,x0,y0) and closed at (p1,x1,y1) with p0 # p1 has
\* exactly the rectangles (p0, x0, y0, 400, max(842 - y0 - 50, 50)) and
\* (p1, x1, 50, 400, max(y1 - 50, 50)), in this order; page 1 y=800 to page 2
\* y=100 gives heights 50 and 50.
C5_CrossPageRects ==
    \A j \in 1..Len(close_calls) :
        LET o == OpenLoc(j)
            e == EndLoc(j)
            r == RectsOfCall(j)
        IN  o.page # e.page =>
              /\ r = << [page |-> o.page, x |-> o.x, y |-> o.y, w |-> 400,
                         h |-> IF 842 - o.y - 50 >= 50 THEN 842 - o.y - 50 ELSE 50],
                        [page |-> e.page, x |-> e.x, y |-> 50, w |-> 400,
                         h |-> IF e.y - 50 >= 50 THEN e.y - 50 ELSE 50] >>
              /\ Len(r) = 2
              /\ r[1].page # r[2].page
              /\ r[1].h >= 50 /\ r[2].h >= 50
              /\ (o.page = 1 /\ o.y = 800 /\ e.page = 2 /\ e.y = 100) =>
                     (r[1].h = 50 /\ r[2].h = 50)

\* The build has closed page 1 y=800 at page 2 y=100, a node two pages after
\* its opening page, and a node on a page before its opening page
C5_Witness ==
    /\ \E j \in 1..Len(close_calls) :
          /\ OpenLoc(j).page = 1 /\ OpenLoc(j).y = 800
          /\ EndLoc(j).page = 2 /\ EndLoc(j).y = 100
    /\ \E j \in 1..Len(close_calls) :
          \/ EndLoc(j).page = OpenLoc(j).page + 2
          \/ EndLoc(j).page < OpenLoc(j).page

\* ------------------------------------------------------------------------
\* C6
\* ------------------------------------------------------------------------
\* The probe at position i has no pairing marker, on the record or in the payload
NoMarkerAt(i) == probes[i].payload.edge = {} /\ probes[i].edge = {}

\* C6: every probe without a pairing marker has made an atomic node; every
\* atomic node has exactly one 10 x 10 rectangle and no children and is not
\* on the stack; every node on the stack above the root is non-atomic.
C6_AtomicNodes ==
    /\ \A i \in 1..Len(probes) : NoMarkerAt(i) =>
          \E n \in NonRoot : nodes[n].seq_start = i - 1 /\ nodes[n].is_atomic
    /\ \A n \in NonRoot : nodes[n].is_atomic =>
          /\ Len(nodes[n].rects) = 1
          /\ nodes[n].rects[1].w = 10 /\ nodes[n].rects[1].h = 10
          /\ nodes[n].children = <<>>
          /\ ~OnStack(n)
    /\ \A i \in 2..Len(stack) : ~nodes[stack[i]].is_atomic

\* An atomic node has been made under an open paired node and probes have
\* been processed after it
C6_Witness ==
    \E n \in NonRoot :
        /\ nodes[n].is_atomic
        /\ NoMarkerAt(nodes[n].seq_start + 1)
        /\ \E q \in NonRoot : IsPaired(q) /\ OnStack(q)
                              /\ \E k \in 1..Len(nodes[q].children) : nodes[q].children[k] = n
        /\ Len(probes) > nodes[n].seq_start + 1

\* ------------------------------------------------------------------------
\* C7
\* ------------------------------------------------------------------------
\* C7: a step that processes an end probe while the stack holds only the
\* root changes neither the stack nor any node, and the loop goes on.
C7_UnmatchedEndIgnored ==
    [][ ( /\ Len(stack) = 1
          /\ Len(probes') = Len(probes) + 1
          /\ probes'[Len(probes')].payload.edge = {"end"} )
        => ( /\ stack' = stack
             /\ Len(stack') = 1
             /\ nodes' = nodes
             /\ Len(nodes'[1].children) = Len(nodes[1].children)
             /\ close_calls' = close_calls
             /\ pc' = "loop" ) ]_vars

\* The first probe was an end probe, and a later probe has made a node
C7_Witness ==
    /\ Len(probes) >= 2
    /\ MarkerAt(1) = "end"
    /\ Len(nodes) >= 2
    /\ close_calls = <<>>

\* ------------------------------------------------------------------------
\* C8
\* ------------------------------------------------------------------------
\* The nodes reachable from the root along at most k children links
RECURSIVE ReachableIn(_)
ReachableIn(k) ==
    IF k = 0 THEN {1}
    ELSE LET r == ReachableIn(k - 1)
         IN  r \cup { c \in 1..Len(nodes) :
                        \E q \in r : \E i \in 1..Len(nodes[q].children) :
                            nodes[q].children[i] = c }

\* Every non-root node is reachable from the root and sits in exactly one
\* children list, once; the root sits in none; children are in probe order
IsTree ==
    /\ ReachableIn(Len(nodes)) = 1..Len(nodes)
    /\ ParentSlots(1) = {}
    /\ \A n \in NonRoot : Cardinality(ParentSlots(n)) = 1
    /\ \A q \in 1..Len(nodes) : \A k, l \in 1..Len(nodes[q].children) :
          k < l => nodes[nodes[q].children[k]].seq_start
                     < nodes[nodes[q].children[l]].seq_start

\* A step that makes a node appends it to the children of the node on top of
\* the stack and leaves every other children list alone; any other step
\* leaves all children lists alone
AttachesToTop ==
    LET top == stack[Len(stack)]
    IN  /\ Len(nodes') >= Len(nodes)
        /\ Len(nodes') > Len(nodes) =>
              /\ Len(nodes') = Len(nodes) + 1
              /\ nodes'[top].children = Append(nodes[top].children, Len(nodes'))
              /\ nodes'[Len(nodes')].children = <<>>
        /\ \A q \in 1..Len(nodes) :
              (Len(nodes') = Len(nodes) \/ q # top) =>
                  nodes'[q].children = nodes[q].children

\* C8: after every prefix the nodes form a tree rooted at the root; a node is
\* in it from its creation, as the last child of the node that was on top of
\* the stack, and children lists are in the order of the probes.
C8_Tree == [](IsTree) /\ [][AttachesToTop]_vars

\* A paired node has a child while the root has two children
C8_Witness ==
    /\ Len(nodes[1].children) >= 2
    /\ \E n \in NonRoot : nodes[n].children # <<>>

\* ------------------------------------------------------------------------
\* C9
\* ------------------------------------------------------------------------
\* Node n is the same before and after the step
Unchanged(n) ==
    /\ n <= Len(nodes')
    /\ nodes'[n].rects = nodes[n].rects
    /\ nodes'[n].children = nodes[n].children
    /\ nodes'[n].kind = nodes[n].kind
    /\ nodes'[n].id = nodes[n].id
    /\ nodes'[n].is_atomic = nodes[n].is_atomic

\* C9: no step changes a paired node that has been closed, nor an atomic
\* node; a rectangle list that has been assigned is never assigned again,
\* and no node is closed twice.
C9_ClosedImmutable ==
    /\ [][ \A n \in NonRoot :
              (CallsOn(n) # {} \/ nodes[n].is_atomic \/ nodes[n].rects # <<>>)
                  => Unchanged(n) ]_vars
    /\ [](\A n \in 1..Len(nodes) : Cardinality(CallsOn(n)) <= 1)

\* A paired node has been closed and a later probe has made a sibling of it
C9_Witness ==
    \E n \in NonRoot : \E m \in NonRoot :
        /\ IsPaired(n) /\ CallsOn(n) # {}
        /\ m > n
        /\ \E q \in 1..Len(nodes) : \E k, l \in 1..Len(nodes[q].children) :
              nodes[q].children[k] = n /\ nodes[q].children[l] = m

\* ------------------------------------------------------------------------
\* C10
\* ------------------------------------------------------------------------
\* The pairing marker of the probe at position i as the interface describes
\* it: the record's own field, overridden by the payload's edge field
DeclaredMarkerAt(i) ==
    IF probes[i].payload.edge # {} THEN CHOOSE e \in probes[i].payload.edge : TRUE
    ELSE IF probes[i].edge # {} THEN CHOOSE e \in probes[i].edge : TRUE
    ELSE "None"

\* The nodes made by the probe at position i
MadeBy(i) == { n \in NonRoot : nodes[n].seq_start = i - 1 }

\* C10: a probe whose marker (record field, overridden by the payload's edge)
\* is start opens a paired node, one whose marker is end makes no node, and
\* only a probe with no marker in either place makes an atomic node.
C10_MarkerFromRecordOrPayload ==
    \A i \in 1..Len(probes) :
        /\ DeclaredMarkerAt(i) = "start" =>
              \E n \in MadeBy(i) : ~nodes[n].is_atomic
        /\ DeclaredMarkerAt(i) = "end" => MadeBy(i) = {}
        /\ (\E n \in MadeBy(i) : nodes[n].is_atomic) => DeclaredMarkerAt(i) = "None"

\* ------------------------------------------------------------------------
\* C11
\* ------------------------------------------------------------------------
\* The page numbers carried by the locations of the probes processed
PagesOfProbes == UNION { probes[i].location.page : i \in 1..Len(probes) }

\* C11: when the build returns, the root's page count is the number of
\* distinct page numbers carried by the probes' locations (ignored end probes
\* included, pageless probes contributing nothing); for the empty sequence
\* the root has no children and a page count of 0.
C11_PageCount ==
    pc = "done" =>
        /\ nodes[1].payload.pages = {Cardinality(PagesOfProbes)}
        /\ probes = <<>> => (nodes[1].children = <<>> /\ nodes[1].payload.pages = {0})

\* The build has returned after an ignored end probe that carries a page no
\* other probe carries, a pageless probe, and two probes on the same page
C11_Witness ==
    /\ pc = "done"
    /\ Len(probes) >= 1
    /\ MarkerAt(1) = "end"
    /\ probes[1].location.page # {}
    /\ \A i \in 2..Len(probes) : probes[i].location.page # probes[1].location.page
    /\ \E i \in 2..Len(probes) : probes[i].location.page = {}
    /\ \E i, j \in 2..Len(probes) :
          i # j /\ probes[i].location.page # {}
                /\ probes[i].location.page = probes[j].location.page

\* ------------------------------------------------------------------------
\* C12
\* ------------------------------------------------------------------------
\* The location of the probe at position i with page 1, x 0, y 0 for what is missing
LocOrDefaults(i) ==
    LET l == probes[i].location
    IN  [page |-> OrDefault(l.page, 1), x |-> OrDefault(l.x, 0), y |-> OrDefault(l.y, 0)]

\* C12: every start probe and every atomic probe has made one node, whatever
\* fields are missing; set_start, close and add_atomic_rect read a missing
\* page, x, y as 1, 0, 0, so a pageless start closed on page 1 is a same-page
\* close.
C12_DefaultsNoDrop ==
    /\ Len(nodes) - 1 = Count("start", Len(probes)) + Count("None", Len(probes))
    /\ \A i \in 1..Len(probes) :
          MarkerAt(i) # "end" => Cardinality(MadeBy(i)) = 1
    /\ \A n \in NonRoot :
          LET l == LocOrDefaults(nodes[n].seq_start + 1)
          IN  IF nodes[n].is_atomic
              THEN /\ nodes[n].rects[1].page = l.page
                   /\ nodes[n].rects[1].x = l.x
                   /\ nodes[n].rects[1].y = l.y
              ELSE /\ nodes[n].start_page = l.page
                   /\ nodes[n].start_x = l.x
                   /\ nodes[n].start_y = l.y
    /\ \A j \in 1..Len(close_calls) :
          LET o == OpenLoc(j)
              e == EndLoc(j)
              r == RectsOfCall(j)
          IN  /\ Len(r) = IF o.page = e.page THEN 1 ELSE 2
              /\ r[Len(r)].page = e.page
              /\ Len(r) = 2 => (r[2].x = e.x /\ r[2].h = IF e.y - 50 >= 50 THEN e.y - 50 ELSE 50)
              /\ Len(r) = 1 => r[1].h = IF e.y - o.y >= 15 THEN e.y - o.y ELSE 15

\* A start probe without a page has been closed by an end probe on page 1,
\* and an atomic probe with no id and no location has made a node
C12_Witness ==
    /\ \E j \in 1..Len(close_calls) :
          /\ probes[nodes[close_calls[j].node].seq_start + 1].location.page = {}
          /\ close_calls[j].end_location.page = {1}
          /\ Len(RectsOfCall(j)) = 1
    /\ \E n \in NonRoot :
          /\ nodes[n].is_atomic
          /\ probes[nodes[n].seq_start + 1].id = {}
          /\ probes[nodes[n].seq_start + 1].location = [page |-> {}, x |-> {}, y |-> {}]

\* ------------------------------------------------------------------------
\* C13
\* ------------------------------------------------------------------------
\* The nodes reachable from q along at most k children links
RECURSIVE SubtreeIn(_, _)
SubtreeIn(q, k) ==
    IF k = 0 THEN {q}
    ELSE LET r == SubtreeIn(q, k - 1)
         IN  r \cup { c \in 1..Len(nodes) :
                        \E a \in r : \E i \in 1..Len(nodes[a].children) :
                            nodes[a].children[i] = c }

Subtree(q) == SubtreeIn(q, Len(nodes))

\* The node numbers are a pre-order numbering of the tree with children in
\* stored order: every subtree is the interval of numbers that starts at its
\* root, and every children list is increasing
NumberedInPreOrder ==
    /\ \A q \in 1..Len(nodes) : Subtree(q) = q..(q + Cardinality(Subtree(q)) - 1)
    /\ \A q \in 1..Len(nodes) : \A k, l \in 1..Len(nodes[q].children) :
          k < l => nodes[q].children[k] < nodes[q].children[l]

\* The triples of nodes 1..n, node by node, each node's rectangles in stored order
RECURSIVE TriplesUpTo(_)
TriplesUpTo(n) ==
    IF n = 0 THEN <<>>
    ELSE TriplesUpTo(n - 1) \o
         [k \in 1..Len(nodes[n].rects) |-> <<nodes[n].kind, nodes[n].id, nodes[n].rects[k]>>]

RECURSIVE RectCountUpTo(_)
RectCountUpTo(n) == IF n = 0 THEN 0 ELSE RectCountUpTo(n - 1) + Len(nodes[n].rects)

\* The positions of all_rects whose rectangle is on page g, in increasing order
RECURSIVE PositionsOnPage(_, _)
PositionsOnPage(g, k) ==
    IF k = 0 THEN <<>>
    ELSE IF all_rects[k][3].page = g
         THEN Append(PositionsOnPage(g, k - 1), k)
         ELSE PositionsOnPage(g, k - 1)

Collected ==
    pc = "exported" =>
        /\ NumberedInPreOrder
        /\ all_rects = TriplesUpTo(Len(nodes))
        /\ Len(all_rects) = RectCountUpTo(Len(nodes))
        /\ nodes[1].children = <<>> => all_rects = <<>>
        /\ DOMAIN rects_by_page = { all_rects[k][3].page : k \in 1..Len(all_rects) }
        /\ \A g \in DOMAIN rects_by_page :
              LET pos == PositionsOnPage(g, Len(all_rects))
              IN  rects_by_page[g] = [i \in 1..Len(pos) |-> all_rects[pos[i]]]

\* C13: collect_all_rects gives the triples in pre-order, as many as there
\* are rectangles in the tree, and leaves the tree as it was; the grouping
\* puts each triple in the group of its page and keeps the order within a
\* page; a root without children gives the empty list.
C13_CollectPreOrder ==
    /\ [](Collected)
    /\ [][pc' = "exported" => nodes' = nodes]_vars

\* Collected from a tree with a two-rectangle node that has a child, and a
\* page that holds rectangles of two nodes
C13_Witness ==
    /\ pc = "exported"
    /\ \E n \in NonRoot : Len(nodes[n].rects) = 2 /\ nodes[n].children # <<>>
    /\ \E g \in DOMAIN rects_by_page : Len(rects_by_page[g]) >= 2
    /\ Cardinality(DOMAIN rects_by_page) >= 2

\* ------------------------------------------------------------------------
\* C14
\* ------------------------------------------------------------------------
\* C14: no two nodes of one build have the same id.
C14_IdsDistinct ==
    \A n, m \in 1..Len(nodes) : n # m => nodes[n].id # nodes[m].id

\* ------------------------------------------------------------------------
\* C15
\* ------------------------------------------------------------------------
\* C15: the rectangle of an atomic node is on the probe's page and has the
\* probe's location (x, y) as its centre.
C15_AtomicRectCentred ==
    \A n \in NonRoot : nodes[n].is_atomic =>
        LET l == LocOrDefaults(nodes[n].seq_start + 1)
            r == nodes[n].rects[1]
        IN  /\ r.page = l.page
            /\ 2 * r.x + r.w = 2 * l.x
            /\ 2 * r.y + r.h = 2 * l.y

\* ------------------------------------------------------------------------
\* C17
\* ------------------------------------------------------------------------
\* The identifier without a trailing "-start", the rest left as it is
WithoutStartSuffix(id) ==
    IF Len(id) >= 1 /\ id[Len(id)] = "-start" THEN SubSeq(id, 1, Len(id) - 1) ELSE id

\* The identifier of the probe at position i ("unknown" when it has none)
IdAt(i) == IF probes[i].id = {} THEN <<"unknown">> ELSE CHOOSE v \in probes[i].id : TRUE

\* C17: the id of a node made by a start probe is the probe's identifier
\* without its trailing "-start" and otherwise unchanged; the id of an atomic
\* node is the probe's identifier.
C17_IdSuffixStripped ==
    \A n \in NonRoot :
        nodes[n].id = IF nodes[n].is_atomic
                      THEN IdAt(nodes[n].seq_start + 1)
                      ELSE WithoutStartSuffix(IdAt(nodes[n].seq_start + 1))

\* ------------------------------------------------------------------------
\* C18
\* ------------------------------------------------------------------------
\* Every stack element above the root is the last child of the one below it
RightmostPath ==
    \A i \in 2..Len(stack) :
        /\ nodes[stack[i - 1]].children # <<>>
        /\ stack[i] = nodes[stack[i - 1]].children[Len(nodes[stack[i - 1]].children)]

\* C18: the stack is the rightmost path of the tree; a new node goes under
\* the most recently opened node that is still open (the root when none is),
\* and a node that is not on the stack gets no more children.
C18_StackIsRightmostPath ==
    /\ [](RightmostPath)
    /\ [][ /\ \A q \in 1..Len(nodes) :
                ~OnStack(q) => nodes'[q].children = nodes[q].children
           /\ Len(nodes') > Len(nodes) =>
                LET open == { n \in NonRoot : IsPaired(n) /\ CallsOn(n) = {} }
                    parent == IF open = {} THEN 1
                              ELSE CHOOSE n \in open : \A m \in open : m <= n
                IN  nodes'[parent].children = Append(nodes[parent].children, Len(nodes')) ]_vars

\* Two paired nodes are open, one inside the other, and one node has been popped
C18_Witness ==
    /\ Len(stack) = 3
    /\ \E n \in NonRoot : IsPaired(n) /\ ~OnStack(n)
    /\ Len(nodes) >= 4

\* ------------------------------------------------------------------------
\* C19
\* ------------------------------------------------------------------------
\* Node n has the rectangles of a close with the location of the probe at
\* position i as end location
ClosedWithProbe(n, i) ==
    LET o == LocOrDefaults(nodes[n].seq_start + 1)
        e == LocOrDefaults(i)
        r == nodes[n].rects
    IN  /\ \E j \in CallsOn(n) : close_calls[j].end_location = probes[i].location
        /\ Len(r) = IF o.page = e.page THEN 1 ELSE 2
        /\ r[Len(r)].page = e.page
        /\ Len(r) = 1 => r[1].h = IF e.y - o.y >= 15 THEN e.y - o.y ELSE 15
        /\ Len(r) = 2 => /\ r[2].x = e.x
                         /\ r[2].h = IF e.y - 50 >= 50 THEN e.y - 50 ELSE 50

\* The probes processed are start A, start B, end A, end B
MisNested ==
    /\ Len(probes) = 4
    /\ MarkerAt(1) = "start" /\ MarkerAt(2) = "start"
    /\ MarkerAt(3) = "end" /\ MarkerAt(4) = "end"
    /\ IdAt(1) = <<"p1", "-start">> /\ IdAt(2) = <<"p2", "-start">>
    /\ IdAt(3) = <<"p1", "-end">> /\ IdAt(4) = <<"p2", "-end">>

\* C19: an end probe processed while the stack holds more than the root pops
\* the top of the stack and closes it with the probe's location, whatever
\* the probe's id; after start A, start B, end A, end B node B is closed with
\* the location of A's end probe and A with that of B's, B is a child of A
\* and the stack holds only the root.
C19_PairedByPosition ==
    /\ [][ ( /\ Len(stack) > 1
             /\ Len(probes') = Len(probes) + 1
             /\ probes'[Len(probes')].payload.edge = {"end"} )
           => ( /\ stack' = SubSeq(stack, 1, Len(stack) - 1)
                /\ close_calls' = Append(close_calls,
                      [node |-> stack[Len(stack)],
                       end_location |-> probes'[Len(probes')].location])
                /\ nodes[stack[Len(stack)]].rects = <<>>
                /\ nodes'[stack[Len(stack)]].rects # <<>>
                /\ \A q \in 1..Len(nodes) :
                      q # stack[Len(stack)] => nodes'[q] = nodes[q] ) ]_vars
    /\ [](MisNested =>
            /\ ClosedWithProbe(3, 3)
            /\ ClosedWithProbe(2, 4)
            /\ nodes[2].children = <<3>>
            /\ nodes[1].children = <<2>>
            /\ stack = <<1>>)

\* start A, start B, end A, end B has been processed, the two end probes at
\* different locations
C19_Witness ==
    /\ MisNested
    /\ probes[3].location # probes[4].location
    /\ Len(close_calls) = 2

\* ------------------------------------------------------------------------
\* C20
\* ------------------------------------------------------------------------
\* The pages of the rectangles of all nodes
PagesOfRects ==
    UNION { { nodes[n].rects[k].page : k \in 1..Len(nodes[n].rects) } :
              n \in 1..Len(nodes) }

\* C20: when the build has returned, every rectangle is on a page that was
\* counted, so the rectangles lie on at most root.payload["pages"] pages.
C20_RectPagesCounted ==
    pc = "done" =>
        /\ PagesOfRects \subseteq pages_seen
        /\ \A c \in nodes[1].payload.pages : Cardinality(PagesOfRects) <= c

====
